---- MODULE Spec2Model ----
(***************************************************************************)
(* Model of read_mb2i (src/src/c/multiboot/mbparse.c): the walk over the   *)
(* Multiboot2 tag stream, the aggregation into _boot_meta, and the         *)
(* address-space bootstrap (init_pmm, the normalized memory map, the HHDM  *)
(* mapping).                                                               *)
(*                                                                         *)
(* Machine words.  TLC's integers are 32 bits wide, so a uint64_t is       *)
(* modelled by a word of WordBits bits and a uint32_t by a word four bits  *)
(* narrower; every sum the code takes in uint64_t wraps modulo U64 here    *)
(* exactly as it wraps modulo 2^64 there.                                  *)
(***************************************************************************)
EXTENDS Integers, Sequences, FiniteSets, TLC

VARIABLES
    mem,            \* the tag records found in memory after the 8-byte header
    total_size,     \* first word of the stream: its declared byte length
    mb2i,           \* argument of read_mb2i: address of the stream
    pc,             \* position of read_mb2i
    tag,            \* cursor (address)
    end,            \* end bound (address)
    mmap,           \* remembered MemoryMap tag (address) or NULL
    entries,        \* int entries
    bootstrap_end,  \* uint64_t bootstrap_end
    boot_meta,      \* struct ARC_BootMeta _boot_meta
    mb2_boot_info,  \* static struct ARC_MB2BootInfo mb2_boot_info
    arc_mmap_size,  \* int arc_mmap_size
    mmap_entries,   \* struct ARC_MMap *mmap_entries
    zeroed,         \* number of bytes memset cleared at mmap_entries
    arc_slots,      \* memory at mmap_entries: slot index -> struct ARC_MMap
    i,              \* index of the outer loop of the HHDM construction
    j,              \* byte offset of the inner loop
    pml4,           \* page table root, as returned by map_page
    calls,          \* history: calls made to the collaborators, in order
    visited,        \* history: addresses of the tags dispatched, in order
    reads           \* history: addresses at which a tag header was read

vars == <<mem, total_size, mb2i, pc, tag, end, mmap, entries, bootstrap_end,
          boot_meta, mb2_boot_info, arc_mmap_size, mmap_entries, zeroed,
          arc_slots, i, j, pml4, calls, visited, reads>>

-----------------------------------------------------------------------------
(* Bounds of the model *)

\* number of tags in memory before the zero word that follows them
MaxTags == 2

\* the walk loop is followed for at most this many dispatches
MaxVisits == 4

\* width of the word that stands for uint64_t
WordBits == 20

U64 == 2 ^ WordBits

U32 == 2 ^ (WordBits - 4)

-----------------------------------------------------------------------------
(* Constants of the program *)

NULL == 0

\* sizeof(struct multiboot_tag): the scale of the pointer sum tag + tag->type
SizeofTag == 8

\* sizeof(struct multiboot_tag_mmap): type, size, entry_size, entry_version
SizeofMmapHeader == 16

\* sizeof(struct multiboot_mmap_entry): addr, len, type, zero
SizeofMmapEntry == 24

\* sizeof(struct ARC_MMap), packed: int type, uint64_t base, uint64_t len
SizeofARC_MMap == 20

\* 0x1000
PAGE == 4096

\* (uintptr_t)&__BOOTSTRAP_END__, a linker symbol
BOOTSTRAP_END == 20480

\* 0xFFFFC00000000000: a word whose top 18 bits are set
HHDM_VADDR == U64 - 2 ^ (WordBits - 18)

KERNEL_NAME == "arctan-module.kernel.elf"

INITRAMFS_NAME == "arctan-module.initramfs.cpio"

\* ALIGN(v, a): v rounded up to a multiple of a
ALIGN(v, a) == ((v + (a - 1)) \div a) * a

\* strcmp(a, b): 0 exactly when the two strings are equal
strcmp(a, b) == IF a = b THEN 0 ELSE 1

\* ARC_HANG: the processor is halted for good
ARC_HANG == "hang"

-----------------------------------------------------------------------------
(* The inputs: what the boot loader left in memory *)

\* struct multiboot_mmap_entry
Entry(t, a, l) == [type |-> t, addr |-> a, len |-> l]

\* a tag: struct multiboot_tag and the fields of its typed views
Tag(t, s) ==
    [type |-> t, size |-> s, cmdline |-> "", mod_start |-> 0, mod_end |-> 0,
     entry_size |-> 0, ents |-> <<>>,
     fb |-> [addr |-> 0, width |-> 0, height |-> 0, pitch |-> 0]]

\* struct multiboot_tag_mmap holding ents, with slop unused bytes at its end
MmapTag(ents, esize, slop) ==
    [Tag("MMAP", SizeofMmapHeader + SizeofMmapEntry * Len(ents) + slop)
        EXCEPT !.entry_size = esize, !.ents = ents]

\* struct multiboot_tag_module: 16 bytes, then the name and its NUL
ModuleTag(name, s, e) ==
    [Tag("MODULE", 16 + Len(name) + 1)
        EXCEPT !.cmdline = name, !.mod_start = s, !.mod_end = e]

\* struct multiboot_tag_framebuffer: 32 bytes in common, 6 of colour info
FramebufferTag(a, w, h, p) ==
    [Tag("FRAMEBUFFER", 38)
        EXCEPT !.fb = [addr |-> a, width |-> w, height |-> h, pitch |-> p]]

\* type 0, size 8: also what a zero word reads as
EndTag == Tag("END", 8)

MmapTags ==
    { MmapTag(<<Entry(1, 8192, 4097), Entry(2, 4096, 8192)>>, SizeofMmapEntry, 0),
      MmapTag(<<Entry(1, U64 - 4096, 8192)>>, SizeofMmapEntry, 8),
      MmapTag(<<Entry(1, 4096, 4096)>>, 0, 0) }

ModuleTags ==
    { ModuleTag(KERNEL_NAME, 8192, 12288),
      ModuleTag(KERNEL_NAME, 24576, 28672),
      ModuleTag(INITRAMFS_NAME, 32768, 36864),
      ModuleTag(INITRAMFS_NAME, 12288, 4096),
      ModuleTag("arctan-module.kernel.elf.old", 40960, 45056) }

OtherTags ==
    { FramebufferTag(49152, 640, 480, 2560),
      Tag("BOOT_LOADER_NAME", 18),
      Tag("BASIC_MEMINFO", 16),
      Tag("LOAD_BASE_ADDR", 12),
      Tag("ACPI_OLD", 28),
      Tag("ACPI_NEW", 44),
      Tag("UNKNOWN", 9),
      Tag("UNKNOWN", 0) }

Records == MmapTags \cup ModuleTags \cup OtherTags

RECURSIVE SeqsUpTo(_, _)
SeqsUpTo(S, n) ==
    IF n = 0 THEN {<<>>}
    ELSE LET shorter == SeqsUpTo(S, n - 1)
         IN  shorter \cup {Append(s, x) : s \in {t \in shorter : Len(t) = n - 1}, x \in S}

Streams == SeqsUpTo(Records, MaxTags)

MB2IAddrs == {32768}

\* bytes a record takes in memory: its header at least, its size padded to 8
Extent(r) == IF r.size < 8 THEN 8 ELSE ((r.size + 7) \div 8) * 8

RECURSIVE BytesOf(_)
BytesOf(s) == IF s = <<>> THEN 0 ELSE Extent(Head(s)) + BytesOf(Tail(s))

\* memory after the header: the records, then a zero word
Image == Append(mem, EndTag)

\* address of the k-th record of the image
StartOf(k) == mb2i + 8 + BytesOf(SubSeq(Image, 1, k - 1))

Starts == {StartOf(k) : k \in 1..Len(Image)}

\* what a read at a place that is no record start yields
Garbage == Tag("UNKNOWN", 8)

\* the record the typed views of the cursor a show
RecordAt(a) ==
    IF a \in Starts
    THEN Image[CHOOSE k \in 1..Len(Image) : StartOf(k) = a]
    ELSE Garbage

-----------------------------------------------------------------------------
(* The results the collaborators can give *)

Pml4Roots == {61440}

\* Arc_ListContiguousAlloc: an address, or NULL when there is no space
AllocResults == {NULL, 53248}

Call(f, a, b, c, d, r) == [fn |-> f, a |-> a, b |-> b, c |-> c, d |-> d, r |-> r]

ZeroBootMeta ==
    [boot_proc |-> 0, boot_info |-> 0, pmm_state |-> 0, highest_address |-> 0,
     kernel_elf |-> 0, initramfs |-> 0, initramfs_size |-> 0, state |-> 0,
     hhdm_vaddr |-> 0, arc_mmap |-> 0, arc_mmap_len |-> 0, rsdp |-> 0]

\* address of mb2_boot_info
MB2BootInfoAddr == 57344

-----------------------------------------------------------------------------
(* Init: read_mb2i is about to be called on some memory *)

Init ==
    /\ mem \in Streams
    /\ mb2i \in MB2IAddrs
    /\ total_size \in {8, 8 + BytesOf(mem), 8 + BytesOf(mem) + 8}
    /\ pc = "entry"
    /\ tag = NULL
    /\ end = NULL
    /\ mmap = NULL
    /\ entries = 0
    /\ bootstrap_end = 0
    /\ boot_meta = ZeroBootMeta
    /\ mb2_boot_info = [mbi_phys |-> 0, fb |-> 0]
    /\ arc_mmap_size = 0
    /\ mmap_entries = NULL
    /\ zeroed = 0
    /\ arc_slots = <<>>
    /\ i = 0
    /\ j = 0
    /\ pml4 \in Pml4Roots
    /\ calls = <<>>
    /\ visited = <<>>
    /\ reads = {}

-----------------------------------------------------------------------------
(* The walk, lines 49-162 *)

\* end = tag + tag->type: a sum on a struct multiboot_tag pointer
EndBound(start, first_word) == start + SizeofTag * first_word

\* a changed NextTag: the size is not rounded up
NextTag_NoAlign(a, size) == a + size

\* tag + ALIGN(tag->size, 8)
NextTag(a, size) == a + ALIGN(size, 8)

\* a changed UpdateHighest: the test of line 80 is dropped
UpdateHighest_NoTest(h, e) == (e.addr + e.len) % U64

\* the update of highest_address by one entry, in uint64_t
UpdateHighest(h, e) ==
    IF h < (e.addr + e.len) % U64 THEN (e.addr + e.len) % U64 ELSE h

\* for (i = k; i < n; i++) over mmap->entries, from highest_address h
RECURSIVE ScanEntries(_, _, _, _)
ScanEntries(h, ents, k, n) ==
    IF k < n THEN ScanEntries(UpdateHighest(h, ents[k + 1]), ents, k + 1, n) ELSE h

\* (mmap->size - sizeof(struct multiboot_tag_mmap)) / mmap->entry_size
EntryCount(t) == (t.size - SizeofMmapHeader) \div t.entry_size

\* a changed NewBootstrapEnd: the test of line 110 is dropped
NewBootstrapEnd_NoTest(be, mod_end) == mod_end

\* if (info->mod_end > bootstrap_end) bootstrap_end = info->mod_end
NewBootstrapEnd(be, mod_end) == IF mod_end > be THEN mod_end ELSE be

\* the record under the cursor
Cur == RecordAt(tag)

\* tag->type != 0 && tag < end
LoopCond == Cur.type # "END" /\ tag < end

\* a changed Enter: the entry count does not start at 0
Enter_EntriesOne ==
    /\ pc = "entry"
    /\ mb2_boot_info' = [mb2_boot_info EXCEPT !.mbi_phys = mb2i]
    /\ end' = EndBound(mb2i, total_size)
    /\ mmap' = NULL
    /\ bootstrap_end' = BOOTSTRAP_END
    /\ tag' = mb2i + 8
    /\ entries' = 1
    /\ pc' = "walk"
    /\ UNCHANGED <<mem, total_size, mb2i, boot_meta, arc_mmap_size, mmap_entries,
                   zeroed, arc_slots, i, j, pml4, calls, visited, reads>>

Enter ==
    /\ pc = "entry"
    /\ mb2_boot_info' = [mb2_boot_info EXCEPT !.mbi_phys = mb2i]
    /\ end' = EndBound(mb2i, total_size)
    /\ mmap' = NULL
    /\ bootstrap_end' = BOOTSTRAP_END
    /\ tag' = mb2i + 8
    /\ entries' = 0
    /\ pc' = "walk"
    /\ UNCHANGED <<mem, total_size, mb2i, boot_meta, arc_mmap_size, mmap_entries,
                   zeroed, arc_slots, i, j, pml4, calls, visited, reads>>

\* the loop test passes, the case for type t is entered
Dispatching(t) ==
    /\ pc = "walk"
    /\ Len(visited) < MaxVisits
    /\ LoopCond
    /\ Cur.type = t
    /\ visited' = Append(visited, tag)
    /\ reads' = reads \cup {tag}

\* line 161
Advance == tag' = NextTag(tag, Cur.size)

Bootstrap == <<arc_mmap_size, mmap_entries, zeroed, arc_slots, i, j, pml4>>

Inputs == <<mem, total_size, mb2i>>

\* a changed DispatchMmap: the allocator is initialized as soon as the memory
\* map is found
DispatchMmap_InitsPmm ==
    /\ Dispatching("MMAP")
    /\ Cur.entry_size # 0
    /\ mmap' = tag
    /\ entries' = EntryCount(Cur)
    /\ boot_meta' = [boot_meta EXCEPT !.highest_address =
                        ScanEntries(@, Cur.ents, 0, EntryCount(Cur))]
    /\ calls' = Append(calls, Call("init_pmm", tag, bootstrap_end, 0, 0, 0))
    /\ Advance
    /\ UNCHANGED <<Inputs, Bootstrap, pc, end, bootstrap_end, mb2_boot_info>>

DispatchMmap ==
    /\ Dispatching("MMAP")
    /\ Cur.entry_size # 0
    /\ mmap' = tag
    /\ entries' = EntryCount(Cur)
    /\ boot_meta' = [boot_meta EXCEPT !.highest_address =
                        ScanEntries(@, Cur.ents, 0, EntryCount(Cur))]
    /\ Advance
    /\ UNCHANGED <<Inputs, Bootstrap, pc, end, bootstrap_end, mb2_boot_info, calls>>

\* entry_size is 0: the division of line 67 raises the divide error of the
\* processor, and read_mb2i goes no further
DispatchMmapDivZero ==
    /\ Dispatching("MMAP")
    /\ Cur.entry_size = 0
    /\ mmap' = tag
    /\ pc' = "trap"
    /\ UNCHANGED <<Inputs, Bootstrap, tag, end, entries, bootstrap_end, boot_meta,
                   mb2_boot_info, calls>>

\* a changed DispatchModule: a field already set is kept
DispatchModule_FirstWins ==
    /\ Dispatching("MODULE")
    /\ boot_meta' =
         IF strcmp(Cur.cmdline, KERNEL_NAME) = 0
         THEN IF boot_meta.kernel_elf = 0
              THEN [boot_meta EXCEPT !.kernel_elf = Cur.mod_start]
              ELSE boot_meta
         ELSE IF strcmp(Cur.cmdline, INITRAMFS_NAME) = 0
         THEN IF boot_meta.initramfs = 0
              THEN [boot_meta EXCEPT !.initramfs = Cur.mod_start,
                                     !.initramfs_size = (Cur.mod_end - Cur.mod_start) % U32]
              ELSE boot_meta
         ELSE boot_meta
    /\ bootstrap_end' = NewBootstrapEnd(bootstrap_end, Cur.mod_end)
    /\ Advance
    /\ UNCHANGED <<Inputs, Bootstrap, pc, end, mmap, entries, mb2_boot_info, calls>>

DispatchModule ==
    /\ Dispatching("MODULE")
    /\ boot_meta' =
         IF strcmp(Cur.cmdline, KERNEL_NAME) = 0
         THEN [boot_meta EXCEPT !.kernel_elf = Cur.mod_start]
         ELSE IF strcmp(Cur.cmdline, INITRAMFS_NAME) = 0
         THEN [boot_meta EXCEPT !.initramfs = Cur.mod_start,
                                !.initramfs_size = (Cur.mod_end - Cur.mod_start) % U32]
         ELSE boot_meta
    /\ bootstrap_end' = NewBootstrapEnd(bootstrap_end, Cur.mod_end)
    /\ Advance
    /\ UNCHANGED <<Inputs, Bootstrap, pc, end, mmap, entries, mb2_boot_info, calls>>

\* a changed DispatchFramebuffer: the terminal is set for the first
\* Framebuffer tag only
DispatchFramebuffer_Once ==
    /\ Dispatching("FRAMEBUFFER")
    /\ calls' = IF mb2_boot_info.fb = NULL
                THEN Append(calls, Call("Arc_SetTerm", Cur.fb.addr, Cur.fb.width,
                                        Cur.fb.height, Cur.fb.pitch, 0))
                ELSE calls
    /\ mb2_boot_info' = [mb2_boot_info EXCEPT !.fb = tag]
    /\ Advance
    /\ UNCHANGED <<Inputs, Bootstrap, pc, end, mmap, entries, bootstrap_end, boot_meta>>

DispatchFramebuffer ==
    /\ Dispatching("FRAMEBUFFER")
    /\ calls' = Append(calls, Call("Arc_SetTerm", Cur.fb.addr, Cur.fb.width,
                                   Cur.fb.height, Cur.fb.pitch, 0))
    /\ mb2_boot_info' = [mb2_boot_info EXCEPT !.fb = tag]
    /\ Advance
    /\ UNCHANGED <<Inputs, Bootstrap, pc, end, mmap, entries, bootstrap_end, boot_meta>>

DispatchLoaderName ==
    /\ Dispatching("BOOT_LOADER_NAME")
    /\ Advance
    /\ UNCHANGED <<Inputs, Bootstrap, pc, end, mmap, entries, bootstrap_end, boot_meta,
                   mb2_boot_info, calls>>

DispatchBasicMeminfo ==
    /\ Dispatching("BASIC_MEMINFO")
    /\ Advance
    /\ UNCHANGED <<Inputs, Bootstrap, pc, end, mmap, entries, bootstrap_end, boot_meta,
                   mb2_boot_info, calls>>

\* lines 155-158
AcpiCase ==
    /\ boot_meta' = [boot_meta EXCEPT !.rsdp = (tag + 8) % U64]
    /\ Advance
    /\ UNCHANGED <<Inputs, Bootstrap, pc, end, mmap, entries, bootstrap_end,
                   mb2_boot_info, calls>>

\* lines 149-153 end without a break: control runs on into the ACPI case
DispatchLoadBaseAddr ==
    /\ Dispatching("LOAD_BASE_ADDR")
    /\ AcpiCase

DispatchAcpi ==
    /\ \/ Dispatching("ACPI_NEW")
       \/ Dispatching("ACPI_OLD")
    /\ AcpiCase

\* a changed DispatchUnknown: a type without a case ends in the ACPI case
DispatchUnknown_IntoAcpi ==
    /\ Dispatching("UNKNOWN")
    /\ AcpiCase

\* no case of the switch matches
DispatchUnknown ==
    /\ Dispatching("UNKNOWN")
    /\ Advance
    /\ UNCHANGED <<Inputs, Bootstrap, pc, end, mmap, entries, bootstrap_end, boot_meta,
                   mb2_boot_info, calls>>

\* the loop test fails on tag->type == 0
WalkStopTerminator ==
    /\ pc = "walk"
    /\ Cur.type = "END"
    /\ reads' = reads \cup {tag}
    /\ pc' = "init_pmm"
    /\ UNCHANGED <<Inputs, Bootstrap, tag, end, mmap, entries, bootstrap_end, boot_meta,
                   mb2_boot_info, calls, visited>>

\* the loop test fails on tag < end, after tag->type was read
WalkStopBound ==
    /\ pc = "walk"
    /\ Cur.type # "END"
    /\ ~(tag < end)
    /\ reads' = reads \cup {tag}
    /\ pc' = "init_pmm"
    /\ UNCHANGED <<Inputs, Bootstrap, tag, end, mmap, entries, bootstrap_end, boot_meta,
                   mb2_boot_info, calls, visited>>

-----------------------------------------------------------------------------
(* The bootstrap of the address space, lines 167-202 *)

\* the entry mmap->entries[k], struct multiboot_mmap_entry
RawEntry(k) == RecordAt(mmap).ents[k + 1]

\* a changed Normalize: base and len change places
Normalize_Swapped(e) == [type |-> e.type, base |-> e.len, len |-> e.addr]

\* the fields lines 183-185 give mmap_entries[i]
Normalize(e) == [type |-> e.type, base |-> e.addr, len |-> e.len]

\* entries * sizeof(struct ARC_MMap) / 0x1000
ArcMmapSize(n) == (n * SizeofARC_MMap) \div PAGE

\* a changed MoreToMap: only whole pages are mapped
MoreToMap_WholePages(off, len) == off + PAGE <= len

\* the test of the inner loop, j < entry.len
MoreToMap(off, len) == off < len

\* line 167
InitPmm ==
    /\ pc = "init_pmm"
    /\ calls' = Append(calls, Call("init_pmm", mmap, bootstrap_end, 0, 0, 0))
    /\ pc' = "alloc"
    /\ UNCHANGED <<Inputs, Bootstrap, tag, end, mmap, entries, bootstrap_end, boot_meta,
                   mb2_boot_info, visited, reads>>

\* lines 169-180: the allocation, whose result is not tested, the memset of
\* arc_mmap_size bytes, and the first writes to _boot_meta
Alloc ==
    /\ pc = "alloc"
    /\ \E p \in AllocResults :
        /\ calls' = Append(calls, Call("Arc_ListContiguousAlloc",
                                       ArcMmapSize(entries), 0, 0, 0, p))
        /\ mmap_entries' = p
        /\ boot_meta' = [boot_meta EXCEPT !.arc_mmap = p,
                                          !.arc_mmap_len = entries,
                                          !.hhdm_vaddr = HHDM_VADDR]
    /\ arc_mmap_size' = ArcMmapSize(entries)
    /\ zeroed' = ArcMmapSize(entries)
    /\ i' = 0
    /\ pc' = "copy"
    /\ UNCHANGED <<Inputs, tag, end, mmap, entries, bootstrap_end, mb2_boot_info,
                   arc_slots, j, pml4, visited, reads>>

\* lines 180-187: the entry is copied to slot i.  Through a NULL mmap_entries
\* the stores land at address i * sizeof(struct ARC_MMap) when page 0 takes
\* them (CopyEntry) and fault when it does not (CopyEntryFault)
CopyEntry ==
    /\ pc = "copy"
    /\ i < entries
    /\ arc_slots' = (i :> Normalize(RawEntry(i))) @@ arc_slots
    /\ j' = 0
    /\ pc' = "map"
    /\ UNCHANGED <<Inputs, tag, end, mmap, entries, bootstrap_end, boot_meta,
                   mb2_boot_info, arc_mmap_size, mmap_entries, zeroed, i, pml4, calls,
                   visited, reads>>

CopyEntryFault ==
    /\ pc = "copy"
    /\ i < entries
    /\ mmap_entries = NULL
    /\ pc' = "fault"
    /\ UNCHANGED <<Inputs, Bootstrap, tag, end, mmap, entries, bootstrap_end, boot_meta,
                   mb2_boot_info, calls, visited, reads>>

\* the map_page call of line 191 for the page at offset j of entry i
MapCall(r) ==
    LET linear == (RawEntry(i).addr + j) % U64
    IN  Call("map_page", (linear + boot_meta.hhdm_vaddr) % U64, linear, 1, 0, r)

\* a changed MapPage: a page that was requested before is not requested again
MapPage_SkipMapped ==
    /\ pc = "map"
    /\ MoreToMap(j, RawEntry(i).len)
    /\ \E r \in Pml4Roots :
        /\ calls' = IF \E n \in 1..Len(calls) : /\ calls[n].fn = "map_page"
                                                /\ calls[n].b = MapCall(r).b
                    THEN calls
                    ELSE Append(calls, MapCall(r))
        /\ pml4' = r
    /\ j' = (j + PAGE) % U64
    /\ UNCHANGED <<Inputs, pc, tag, end, mmap, entries, bootstrap_end, boot_meta,
                   mb2_boot_info, arc_mmap_size, mmap_entries, zeroed, arc_slots, i,
                   visited, reads>>

\* lines 189-192, map_page gives a root: j += 0x1000
MapPage ==
    /\ pc = "map"
    /\ MoreToMap(j, RawEntry(i).len)
    /\ \E r \in Pml4Roots :
        /\ calls' = Append(calls, MapCall(r))
        /\ pml4' = r
    /\ j' = (j + PAGE) % U64
    /\ UNCHANGED <<Inputs, pc, tag, end, mmap, entries, bootstrap_end, boot_meta,
                   mb2_boot_info, arc_mmap_size, mmap_entries, zeroed, arc_slots, i,
                   visited, reads>>

\* a changed MapPageFail: the result of map_page is not tested
MapPageFail_NoHang ==
    /\ pc = "map"
    /\ MoreToMap(j, RecordAt(mmap).ents[i + 1].len)
    /\ calls' = Append(calls, Call("map_page",
                   (((RecordAt(mmap).ents[i + 1].addr + j) % U64) + boot_meta.hhdm_vaddr) % U64,
                   (RecordAt(mmap).ents[i + 1].addr + j) % U64, 1, 0, NULL))
    /\ pml4' = NULL
    /\ j' = (j + PAGE) % U64
    /\ UNCHANGED <<Inputs, pc, tag, end, mmap, entries, bootstrap_end, boot_meta,
                   mb2_boot_info, arc_mmap_size, mmap_entries, zeroed, arc_slots, i,
                   visited, reads>>

\* lines 189-196, map_page gives NULL: ARC_HANG
MapPageFail ==
    /\ pc = "map"
    /\ MoreToMap(j, RawEntry(i).len)
    /\ calls' = Append(calls, MapCall(NULL))
    /\ pml4' = NULL
    /\ pc' = ARC_HANG
    /\ UNCHANGED <<Inputs, tag, end, mmap, entries, bootstrap_end, boot_meta,
                   mb2_boot_info, arc_mmap_size, mmap_entries, zeroed, arc_slots, i, j,
                   visited, reads>>

\* the inner loop ends: i++
NextEntry ==
    /\ pc = "map"
    /\ ~MoreToMap(j, RawEntry(i).len)
    /\ i' = i + 1
    /\ pc' = "copy"
    /\ UNCHANGED <<Inputs, tag, end, mmap, entries, bootstrap_end, boot_meta,
                   mb2_boot_info, arc_mmap_size, mmap_entries, zeroed, arc_slots, j, pml4,
                   calls, visited, reads>>

\* lines 200-202: the outer loop ends, boot_info is published, return 0
Return ==
    /\ pc = "copy"
    /\ ~(i < entries)
    /\ boot_meta' = [boot_meta EXCEPT !.boot_info = MB2BootInfoAddr]
    /\ pc' = "done"
    /\ UNCHANGED <<Inputs, Bootstrap, tag, end, mmap, entries, bootstrap_end,
                   mb2_boot_info, calls, visited, reads>>

-----------------------------------------------------------------------------

Next ==
    \/ Enter
    \/ DispatchMmap
    \/ DispatchMmapDivZero
    \/ DispatchModule
    \/ DispatchFramebuffer
    \/ DispatchLoaderName
    \/ DispatchBasicMeminfo
    \/ DispatchLoadBaseAddr
    \/ DispatchAcpi
    \/ DispatchUnknown
    \/ WalkStopTerminator
    \/ WalkStopBound
    \/ InitPmm
    \/ Alloc
    \/ CopyEntry
    \/ CopyEntryFault
    \/ MapPage
    \/ MapPageFail
    \/ NextEntry
    \/ Return

Spec == Init /\ [][Next]_vars

-----------------------------------------------------------------------------
(* What the histories say *)

\* the walk loop was left by its test
PostWalk == pc \in {"init_pmm", "alloc", "copy", "map", "done", "hang", "fault"}

\* the tags dispatched, in order
VisitedRecs == [k \in 1..Len(visited) |-> RecordAt(visited[k])]

VisitedMmaps == SelectSeq(VisitedRecs, LAMBDA r : r.type = "MMAP")

VisitedModules == SelectSeq(VisitedRecs, LAMBDA r : r.type = "MODULE")

ModulesNamed(name) == SelectSeq(VisitedModules, LAMBDA r : r.cmdline = name)

SetMax(S) == CHOOSE m \in S : \A x \in S : x <= m

Last(s) == s[Len(s)]

Range(s) == {s[n] : n \in DOMAIN s}

\* the ends addr + len, as 64-bit values, of the entries of the MemoryMap tags visited
VisitedRegionEnds ==
    UNION { {(e.addr + e.len) % U64 : e \in Range(VisitedMmaps[k].ents)} :
              k \in 1..Len(VisitedMmaps) }

-----------------------------------------------------------------------------
(* C1: after the walk, started from an all-zero _boot_meta, highest_address
   is the maximum of addr + len (taken modulo 2^64) over every entry of every
   MemoryMap tag visited, and 0 when no entry was visited. *)
C1_HighestIsMax ==
    PostWalk => boot_meta.highest_address = SetMax({0} \cup VisitedRegionEnds)

\* two MemoryMap tags were walked, one entry wraps around, and the maximum
\* comes from the first tag
C1_Witness ==
    /\ pc = "done"
    /\ Len(VisitedMmaps) = 2
    /\ \E n \in 1..Len(VisitedMmaps[2].ents) :
          VisitedMmaps[2].ents[n].addr + VisitedMmaps[2].ents[n].len >= U64
    /\ boot_meta.highest_address = 8192 + 4097

(* C2, as claimed: module recording is first-match-wins per name.  kernel_elf
   is the mod_start of the first Module tag named "arctan-module.kernel.elf";
   initramfs and initramfs_size come from the first Module tag named
   "arctan-module.initramfs.cpio". *)
C2_FirstMatchWins ==
    /\ ModulesNamed(KERNEL_NAME) # <<>> =>
          boot_meta.kernel_elf = ModulesNamed(KERNEL_NAME)[1].mod_start
    /\ ModulesNamed(INITRAMFS_NAME) # <<>> =>
          /\ boot_meta.initramfs = ModulesNamed(INITRAMFS_NAME)[1].mod_start
          /\ boot_meta.initramfs_size =
                (ModulesNamed(INITRAMFS_NAME)[1].mod_end
                   - ModulesNamed(INITRAMFS_NAME)[1].mod_start) % U32

(* C2, amended: module recording is last-match-wins per name.  kernel_elf is
   the mod_start of the last Module tag visited whose name is exactly
   "arctan-module.kernel.elf" (0 when there is none); initramfs and
   initramfs_size are the mod_start and mod_end - mod_start (in 32 bits) of the
   last one named exactly "arctan-module.initramfs.cpio" (0 when none). *)
C2_LastMatchWins ==
    /\ boot_meta.kernel_elf =
          IF ModulesNamed(KERNEL_NAME) = <<>> THEN 0
          ELSE Last(ModulesNamed(KERNEL_NAME)).mod_start
    /\ boot_meta.initramfs =
          IF ModulesNamed(INITRAMFS_NAME) = <<>> THEN 0
          ELSE Last(ModulesNamed(INITRAMFS_NAME)).mod_start
    /\ boot_meta.initramfs_size =
          IF ModulesNamed(INITRAMFS_NAME) = <<>> THEN 0
          ELSE (Last(ModulesNamed(INITRAMFS_NAME)).mod_end
                  - Last(ModulesNamed(INITRAMFS_NAME)).mod_start) % U32

\* two kernel-named Module tags of different bases were walked to the end
C2_Witness ==
    /\ pc = "done"
    /\ Len(ModulesNamed(KERNEL_NAME)) = 2
    /\ ModulesNamed(KERNEL_NAME)[1].mod_start # ModulesNamed(KERNEL_NAME)[2].mod_start
    /\ boot_meta.kernel_elf = ModulesNamed(KERNEL_NAME)[2].mod_start

(* C3, as claimed: no tag header is read at or beyond the declared length of
   the stream: the end bound is start + declared length, and every address at
   which the walker reads a record lies below it. *)
C3_ReadsWithinDeclaredLength ==
    pc # "entry" =>
        /\ end = mb2i + total_size
        /\ \A a \in reads : a < mb2i + total_size

-----------------------------------------------------------------------------
\* a stream as the protocol forms it: every record at least a header long, the
\* terminator inside the declared length, which ends with it
WellFormed ==
    /\ total_size = 8 + BytesOf(mem) + 8
    /\ \A k \in 1..Len(mem) : mem[k].size >= 8

\* the addresses of the records before the terminator, in stream order
BodyStarts == [k \in 1..Len(mem) |-> StartOf(k)]

(* C4: on a well-formed stream the walk starts at offset 8 and moves from a
   record at offset o of size s to offset o + (s rounded up to 8): the cursor
   is always the start of a record, the records dispatched are the records
   before the terminator, each once, in increasing offset order, and when the
   loop is left all of them were dispatched and the cursor is on the
   terminator. *)
C4_WalkInOrder ==
    (WellFormed /\ pc # "entry") =>
        /\ tag \in Starts
        /\ reads \subseteq Starts
        /\ visited = SubSeq(BodyStarts, 1, Len(visited))
        /\ Len(visited) >= 1 => visited[1] = mb2i + 8
        /\ \A k \in 1..Len(visited) - 1 :
              /\ visited[k] < visited[k + 1]
              /\ visited[k + 1] = visited[k] + ((mem[k].size + 7) \div 8) * 8
        /\ pc = "walk" => tag = StartOf(Len(visited) + 1)
        /\ PostWalk => visited = BodyStarts /\ tag = StartOf(Len(Image))

\* a well-formed stream of two records, one of a size that is no multiple of
\* 8, was walked to its terminator
C4_Witness ==
    /\ WellFormed
    /\ pc = "done"
    /\ Len(visited) = 2
    /\ mem[1].size % 8 # 0
    /\ tag = mb2i + total_size - 8

\* the entries of the raw memory map: those of the MemoryMap tag the walk
\* remembered, the last one it visited
RawEntries == IF VisitedMmaps = <<>> THEN <<>> ELSE Last(VisitedMmaps).ents

MapCalls == SelectSeq(calls, LAMBDA c : c.fn = "map_page")

(* C5: when read_mb2i has returned, every page that holds a byte of a raw
   memory-map entry was requested: for every entry (addr, len) and every page
   index k with k * 4096 < len there is a map_page call with
   physical = addr + k * 4096, virtual = hhdm_vaddr + physical (both in 64
   bits) and the writable flag 1. *)
C5_MappingComplete ==
    pc = "done" =>
        \A n \in 1..Len(RawEntries) :
            \A k \in 0..((RawEntries[n].len + PAGE - 1) \div PAGE) - 1 :
                \E m \in 1..Len(MapCalls) :
                    /\ MapCalls[m].b = (RawEntries[n].addr + k * PAGE) % U64
                    /\ MapCalls[m].a = (boot_meta.hhdm_vaddr + MapCalls[m].b) % U64
                    /\ MapCalls[m].c = 1

\* a map with a region of 4097 bytes was mapped completely: two entries,
\* four pages
C5_Witness ==
    /\ pc = "done"
    /\ \E n \in 1..Len(RawEntries) : RawEntries[n].len % PAGE = 1
    /\ Len(MapCalls) = 4
    /\ boot_meta.hhdm_vaddr = HHDM_VADDR

(* C6: when read_mb2i has returned, arc_mmap_len is the number of entries of
   the raw memory map and the normalized slots are exactly slots
   0 .. arc_mmap_len - 1, slot i holding the type, addr and len of raw entry
   i. *)
C6_NormalizedIsRaw ==
    pc = "done" =>
        /\ boot_meta.arc_mmap_len = Len(RawEntries)
        /\ DOMAIN arc_slots = 0..Len(RawEntries) - 1
        /\ \A n \in 0..Len(RawEntries) - 1 :
              /\ arc_slots[n].type = RawEntries[n + 1].type
              /\ arc_slots[n].base = RawEntries[n + 1].addr
              /\ arc_slots[n].len = RawEntries[n + 1].len

\* two entries, the higher address first, were normalized
C6_Witness ==
    /\ pc = "done"
    /\ boot_meta.arc_mmap_len = 2
    /\ arc_slots[0].base > arc_slots[1].base
    /\ arc_slots[0].type # arc_slots[1].type

(* C7: a map_page call that returned NULL is the last call read_mb2i makes:
   the function is halted there, boot_info is not published and the function
   has not returned. *)
C7_MapFailureHalts ==
    \A n \in 1..Len(calls) :
        (calls[n].fn = "map_page" /\ calls[n].r = NULL) =>
            /\ n = Len(calls)
            /\ pc = ARC_HANG
            /\ boot_meta.boot_info = 0

\* the second map_page call failed, after a first one that succeeded
C7_Witness ==
    /\ pc = ARC_HANG
    /\ Len(MapCalls) = 2
    /\ MapCalls[1].r # NULL
    /\ MapCalls[2].r = NULL

AllocFailed ==
    \E n \in 1..Len(calls) :
        calls[n].fn = "Arc_ListContiguousAlloc" /\ calls[n].r = NULL

(* C8, as claimed: when Arc_ListContiguousAlloc returns NULL the bootstrapper
   halts: no slot is written through the pointer, no map_page call is made and
   read_mb2i does not return. *)
C8_AllocFailureHalts ==
    AllocFailed =>
        /\ arc_slots = <<>>
        /\ MapCalls = <<>>
        /\ pc # "done"

InitPmmCalls == SelectSeq(calls, LAMBDA c : c.fn = "init_pmm")

\* bootstrap_end and every value given to init_pmm are at least the image end
\* and the mod_end of every Module tag visited
C9_Footprint ==
    /\ pc # "entry" =>
          /\ bootstrap_end >= BOOTSTRAP_END
          /\ \A k \in 1..Len(VisitedModules) : bootstrap_end >= VisitedModules[k].mod_end
    /\ \A n \in 1..Len(InitPmmCalls) :
          /\ InitPmmCalls[n].b >= BOOTSTRAP_END
          /\ \A k \in 1..Len(VisitedModules) : InitPmmCalls[n].b >= VisitedModules[k].mod_end

(* C9: bootstrap_end never decreases, and it and the value passed to init_pmm
   are at least __BOOTSTRAP_END__ and the mod_end of every Module tag visited,
   whatever the names of the modules. *)
C9_FootprintMonotone ==
    /\ []C9_Footprint
    /\ [][bootstrap_end' >= bootstrap_end]_vars

\* two modules, the larger mod_end first and neither named as the kernel,
\* and init_pmm got the larger mod_end
C9_Witness ==
    /\ pc = "done"
    /\ Len(VisitedModules) = 2
    /\ VisitedModules[1].cmdline # KERNEL_NAME
    /\ VisitedModules[2].mod_end < BOOTSTRAP_END
    /\ InitPmmCalls[1].b = VisitedModules[1].mod_end
    /\ InitPmmCalls[1].b > BOOTSTRAP_END

CountOf(f) == Cardinality({n \in 1..Len(calls) : calls[n].fn = f})

IndexOf(f) == CHOOSE n \in 1..Len(calls) : calls[n].fn = f

(* C10: init_pmm is never called while the walk is running and never twice;
   from the moment the walk has stopped and line 167 is passed it has been
   called exactly once, with the final bootstrap_end; Arc_ListContiguousAlloc
   is never called before init_pmm and never twice, and once line 170 is
   passed it has been called exactly once, after init_pmm and before every
   map_page call. *)
C10_CallProtocol ==
    /\ pc \in {"entry", "walk", "trap", "init_pmm"} =>
          /\ CountOf("init_pmm") = 0
          /\ CountOf("Arc_ListContiguousAlloc") = 0
          /\ CountOf("map_page") = 0
    /\ pc = "alloc" =>
          /\ CountOf("init_pmm") = 1
          /\ CountOf("Arc_ListContiguousAlloc") = 0
          /\ CountOf("map_page") = 0
    /\ pc \in {"copy", "map", "done", "hang", "fault"} =>
          /\ CountOf("init_pmm") = 1
          /\ CountOf("Arc_ListContiguousAlloc") = 1
          /\ IndexOf("init_pmm") < IndexOf("Arc_ListContiguousAlloc")
          /\ \A n \in 1..Len(calls) :
                calls[n].fn = "map_page" => IndexOf("Arc_ListContiguousAlloc") < n
    /\ CountOf("init_pmm") = 1 => calls[IndexOf("init_pmm")].b = bootstrap_end

\* a run with a module, a memory map and map_page calls has returned
C10_Witness ==
    /\ pc = "done"
    /\ Len(VisitedModules) = 1
    /\ CountOf("map_page") >= 2
    /\ bootstrap_end > BOOTSTRAP_END

-----------------------------------------------------------------------------
SetTermCalls == SelectSeq(calls, LAMBDA c : c.fn = "Arc_SetTerm")

VisitedFramebuffers == SelectSeq(VisitedRecs, LAMBDA r : r.type = "FRAMEBUFFER")

(* C11, as claimed: Arc_SetTerm is called at most once in a run, and only
   when a Framebuffer tag was dispatched, whatever the number of Framebuffer
   tags in the stream. *)
C11_SetTermAtMostOnce ==
    /\ Len(SetTermCalls) <= 1
    /\ Len(SetTermCalls) = 1 => VisitedFramebuffers # <<>>

(* C11, amended: Arc_SetTerm is called once for every Framebuffer tag
   dispatched, in stream order and with the address, width, height and pitch
   of that tag, and never otherwise: no call without a Framebuffer tag, two
   calls for two Framebuffer tags. *)
C11_SetTermPerFramebuffer ==
    /\ Len(SetTermCalls) = Len(VisitedFramebuffers)
    /\ \A n \in 1..Len(SetTermCalls) :
          /\ SetTermCalls[n].a = VisitedFramebuffers[n].fb.addr
          /\ SetTermCalls[n].b = VisitedFramebuffers[n].fb.width
          /\ SetTermCalls[n].c = VisitedFramebuffers[n].fb.height
          /\ SetTermCalls[n].d = VisitedFramebuffers[n].fb.pitch

\* a stream of two Framebuffer tags was walked and read_mb2i returned
C11_Witness ==
    /\ pc = "done"
    /\ Len(VisitedFramebuffers) = 2
    /\ Len(SetTermCalls) = 2

-----------------------------------------------------------------------------
(* C12, as claimed: the walk is finite for any record sizes, 0 included.
   The loop test reads only the cursor, the end bound and the memory under the
   cursor, and the memory and the bound do not change: a walk that dispatches
   twice at one address repeats itself for ever, and a walk whose cursor
   strictly advances stops within (end - start) / 8 dispatches.  So the walk
   is finite exactly when the addresses dispatched are strictly increasing. *)
C12_WalkIsFinite ==
    \A a, b \in 1..Len(visited) : a < b => visited[a] < visited[b]

-----------------------------------------------------------------------------
\* this step dispatches the tag under the cursor, which is of type t
DispatchStep(t) ==
    /\ pc = "walk"
    /\ LoopCond
    /\ Cur.type = t
    /\ visited' = Append(visited, tag)

(* C13, as claimed: the LoadBaseAddr case is a case of its own: dispatching a
   LoadBaseAddr tag leaves rsdp and every other field of _boot_meta as they
   were. *)
C13_LoadBaseAddrKeepsBootMeta ==
    [][DispatchStep("LOAD_BASE_ADDR") => boot_meta' = boot_meta]_vars

-----------------------------------------------------------------------------
AllocCalls == SelectSeq(calls, LAMBDA c : c.fn = "Arc_ListContiguousAlloc")

\* the pages that n normalized entries take, rounded up
PagesFor(n) == (n * SizeofARC_MMap + PAGE - 1) \div PAGE

(* C14, as claimed: the size requested from the allocator is
   entries * sizeof(struct ARC_MMap) rounded up to whole pages (counted in
   pages or in bytes), so the buffer holds every entry, and the whole buffer
   is zero-filled when the first slot is written. *)
C14_AllocSizeRoundedUp ==
    \A n \in 1..Len(AllocCalls) :
        /\ \/ AllocCalls[n].a = PagesFor(entries)
           \/ AllocCalls[n].a = PagesFor(entries) * PAGE
        /\ zeroed >= entries * SizeofARC_MMap

-----------------------------------------------------------------------------
(* C15, as claimed: a MemoryMap tag whose entry_size is 0 is treated as fatal
   corruption of the stream: the system is halted before the division by
   entry_size is made, no entry is iterated and init_pmm is not reached. *)
C15_ZeroEntrySizeHalts ==
    (\E k \in 1..Len(VisitedMmaps) : VisitedMmaps[k].entry_size = 0) =>
        /\ pc = ARC_HANG
        /\ InitPmmCalls = <<>>

-----------------------------------------------------------------------------
(* C16: dispatching a record whose type has no case in the switch changes
   nothing but the cursor: _boot_meta, mb2_boot_info, bootstrap_end, the
   remembered MemoryMap tag and the entry count stay as they were, no
   collaborator is called, and the walk goes on at the cursor plus the size of
   the record rounded up to 8. *)
C16_UnknownSkipped ==
    [][DispatchStep("UNKNOWN") =>
          /\ boot_meta' = boot_meta
          /\ mb2_boot_info' = mb2_boot_info
          /\ bootstrap_end' = bootstrap_end
          /\ mmap' = mmap
          /\ entries' = entries
          /\ calls' = calls
          /\ pc' = "walk"
          /\ tag' = tag + ((Cur.size + 7) \div 8) * 8]_vars

\* a record of an unrecognized type and of size 9 was skipped after a kernel
\* module was recorded, and the run returned
C16_Witness ==
    /\ pc = "done"
    /\ Len(visited) = 2
    /\ VisitedRecs[1].type = "MODULE"
    /\ VisitedRecs[2].type = "UNKNOWN"
    /\ VisitedRecs[2].size = 9
    /\ boot_meta.kernel_elf # 0
    /\ boot_meta.rsdp = 0
    /\ tag = visited[2] + 16

-----------------------------------------------------------------------------
\* the addresses of the ACPI tags dispatched, in order
VisitedAcpi ==
    SelectSeq(visited, LAMBDA a : RecordAt(a).type \in {"ACPI_NEW", "ACPI_OLD"})

(* C17: after the walk, started from an all-zero _boot_meta, rsdp is the
   address of the last ACPI_NEW or ACPI_OLD tag visited plus 8, and 0 when no
   such tag was visited; tags of every other type leave rsdp alone. *)
C17_RsdpFromLastAcpi ==
    PostWalk =>
        boot_meta.rsdp = IF VisitedAcpi = <<>> THEN 0
                         ELSE (Last(VisitedAcpi) + 8) % U64

-----------------------------------------------------------------------------
\* the number of pages that hold a byte of a region of len bytes
PageCount(len) == (len + PAGE - 1) \div PAGE

\* the physical pages of one raw entry, at offsets 0, 4096, ... below len
PagesOf(e) == [k \in 1..PageCount(e.len) |-> (e.addr + (k - 1) * PAGE) % U64]

RECURSIVE PagesOfAll(_)
\* the pages of the entries ents, entry after entry in the order of ents
PagesOfAll(ents) ==
    IF ents = <<>> THEN <<>>
    ELSE PagesOf(Head(ents)) \o PagesOfAll(Tail(ents))

RECURSIVE SumPages(_)
SumPages(ents) ==
    IF ents = <<>> THEN 0
    ELSE PageCount(Head(ents).len) + SumPages(Tail(ents))

\* the map_page calls made so far are the first calls of the expected sequence
C18_InOrderSoFar ==
    /\ Len(MapCalls) <= Len(PagesOfAll(RawEntries))
    /\ \A m \in 1..Len(MapCalls) : MapCalls[m].b = PagesOfAll(RawEntries)[m]
    /\ MapCalls # <<>> => boot_meta.hhdm_vaddr = HHDM_VADDR
    /\ pc = "done" => Len(MapCalls) = SumPages(RawEntries)

(* C18: at every moment the physical addresses of the map_page calls made so
   far are the beginning of this sequence: the raw entries in the order of
   the MemoryMap tag, each giving addr, addr + 4096, ... for the offsets below
   len, a page named by two entries appearing twice; when read_mb2i has
   returned the number of calls is the sum of ceil(len / 4096) over the
   entries; hhdm_vaddr changes only from its initial 0 and only while no
   map_page call has been made, and holds its final value at every call. *)
C18_MapOrder ==
    /\ []C18_InOrderSoFar
    /\ [][boot_meta'.hhdm_vaddr # boot_meta.hhdm_vaddr =>
              /\ boot_meta.hhdm_vaddr = 0
              /\ MapCalls = <<>>
              /\ MapCalls' = <<>>]_vars

\* a map whose second region lies below the first and overlaps it: the page
\* at 8192 is requested twice, the lower region after the higher one
C18_Witness ==
    /\ pc = "done"
    /\ Len(RawEntries) = 2
    /\ [m \in 1..Len(MapCalls) |-> MapCalls[m].b] = <<8192, 12288, 4096, 8192>>
    /\ boot_meta.hhdm_vaddr = HHDM_VADDR

-----------------------------------------------------------------------------
(* C19: as long as no MemoryMap tag was dispatched, the memory-map pointer is
   NULL and no entry is read through it: once line 59 is passed the entry
   count is 0, no normalized slot is written, no map_page call is made, the
   run is never inside the mapping loop and never halts or faults,
   highest_address stays 0, the allocation asks for 0 pages, and when
   read_mb2i has returned arc_mmap_len is 0 and boot_info is published. *)
C19_NoMmapNoEntryRead ==
    VisitedMmaps = <<>> =>
        /\ pc # "entry" => (mmap = NULL /\ entries = 0)
        /\ arc_slots = <<>>
        /\ MapCalls = <<>>
        /\ boot_meta.highest_address = 0
        /\ pc \notin {"map", "trap", ARC_HANG, "fault"}
        /\ \A n \in 1..Len(AllocCalls) : AllocCalls[n].a = 0
        /\ pc = "done" => /\ boot_meta.arc_mmap_len = 0
                          /\ boot_meta.arc_mmap \in AllocResults
                          /\ boot_meta.boot_info = MB2BootInfoAddr

\* a stream of two tags, none of them a MemoryMap tag, was walked and
\* read_mb2i returned after an allocation of 0 pages that gave NULL
C19_Witness ==
    /\ pc = "done"
    /\ Len(visited) = 2
    /\ VisitedMmaps = <<>>
    /\ Len(AllocCalls) = 1
    /\ boot_meta.arc_mmap = NULL
    /\ boot_meta.arc_mmap_len = 0

====
